---- MODULE Spec2Model ----
(***************************************************************************)
(* State-machine model of the yoyo-slack-bot backend:                      *)
(*   OpenAIService.getAnswer and SlackService (app_mention handler,        *)
(*   sendMessage, reactToMessage, getChannelMembers, getUserName,          *)
(*   getChannelHistory, fetchTodaysMessages, extractQuestion).             *)
(*                                                                         *)
(* Every network call (Slack Web API, OpenAI) is a suspension point: the   *)
(* request is issued by one action and its response is consumed by a      *)
(* later action, which draws the response from a small set.  The code      *)
(* that runs between two suspension points of one invocation is one        *)
(* action.                                                                 *)
(***************************************************************************)
EXTENDS Integers, Sequences, FiniteSets, TLC

\* ------------------------------------------------------------------ bounds
MaxCalls == 2       \* direct calls of the service primitives made in sequence
MaxHist == 2        \* messages in a history page answered to a mention handler
MaxPage == 3        \* messages in a history page answered to a direct fetch
MaxText == 4        \* characters in a mention text given to extractQuestion
MaxPrompt == 2      \* messages given to a direct call of getAnswer

\* ----------------------------------------------------------- value domains
Absent == "<undefined>"     \* a field the platform left out (JS undefined)

\* the answer to an awaited platform call: it rejects ("error"), or resolves
\* without the payload field ("empty"), or resolves with the payload
Rejected == [kind |-> "error"]
Empty == [kind |-> "empty"]
With(x) == [kind |-> "ok", val |-> x]

UserIds == {"U1", "U2"}
Channels == {"C1"}

\* JS truthiness of an optional string field
Truthy(x) == x # Absent /\ x # ""

\* a || b on string fields
OrElse(a, b) == IF Truthy(a) THEN a ELSE b

\* maps keyed by user identifier (JS objects used as dictionaries)
EmptyMap == << >>
Put(m, k, v) == [x \in (DOMAIN m) \cup {k} |-> IF x = k THEN v ELSE m[x]]

\* users.info profiles the platform may answer with (user.name,
\* user.real_name, user.is_bot); the same user may be answered with a
\* different profile at a later lookup
Profiles ==
  { [name |-> "al", real_name |-> "Al", is_bot |-> Absent],
    [name |-> "al", real_name |-> "Bo", is_bot |-> Absent],
    [name |-> Absent, real_name |-> Absent, is_bot |-> "true"] }

\* users.info answers: rejected, answered without a user, or a profile
LookupResponses == {Rejected, Empty} \cup { With(p) : p \in Profiles }

\* conversations.members answers: rejected, answered without members, or a
\* member identifier list (identifiers are distinct)
MemberLists == { <<>>, <<"U1">>, <<"U1", "U2">> }
MembersResponses == {Rejected, Empty} \cup { With(l) : l \in MemberLists }

Range(s) == { s[i] : i \in 1..Len(s) }

\* ------------------------------------------------------------------- time
DayMs == 24 * 60 * 60 * 1000

\* the instant `new Date()` yields inside fetchTodaysMessages (second day of
\* the epoch, 12:00)
Clock == { DayMs + 12 * 60 * 60 * 1000 }

\* date-fns startOfDay / endOfDay, in epoch milliseconds (server zone UTC)
startOfDay(t) == t - (t % DayMs)
endOfDay(t) == startOfDay(t) + DayMs - 1

\* message timestamps as the platform encodes them (seconds.microseconds)
TsYesterday == "43200.000100"
TsToday == "126000.000200"

\* parseInt of a timestamp string: its leading whole seconds
parseInt(ts) ==
  CASE ts = TsYesterday -> 43200
    [] ts = TsToday -> 126000

\* ------------------------------------------------------- history messages
Msg(u, t, ts, b, s) ==
  [user |-> u, text |-> t, ts |-> ts, bot_id |-> b, subtype |-> s]

\* raw conversations.history records; user, text and ts may be absent or
\* empty, bot_id and subtype are absent or a non-empty identifier
RawGood1 == Msg("U1", "hi", TsToday, Absent, Absent)
RawGood2 == Msg("U2", "yo", TsYesterday, Absent, Absent)
RawBot == Msg("U1", "auto", TsToday, "B1", Absent)
RawMsgs ==
  { RawGood1, RawGood2, RawBot,
    Msg("U2", "", TsToday, Absent, Absent),
    Msg("U1", Absent, TsToday, Absent, Absent),
    Msg(Absent, "hey", TsToday, Absent, Absent),
    Msg("U1", "joined", Absent, Absent, "channel_join") }

RECURSIVE SeqsUpTo(_, _)
SeqsUpTo(S, n) ==
  IF n = 0 THEN { <<>> }
  ELSE LET shorter == SeqsUpTo(S, n - 1)
       IN shorter \cup { Append(s, x) : s \in { q \in shorter : Len(q) = n - 1 }, x \in S }

\* getChannelHistory's map of one raw record to a SlackMessage
toSlackMessage(m) ==
  [user |-> OrElse(m.user, ""), text |-> OrElse(m.text, ""),
   ts |-> OrElse(m.ts, ""),
   botId |-> m.bot_id, subtype |-> m.subtype]

\* getChannelHistory on a resolved answer: the mapped page, [] when the
\* answer has no messages
getChannelHistory(resp) ==
  IF resp.kind = "empty" THEN <<>>
  ELSE [i \in 1..Len(resp.val) |-> toSlackMessage(resp.val[i])]

\* faulty variant: the filter forgets the check of msg.user
isRelevantWithoutUser(msg) ==
  /\ ~Truthy(msg.botId)
  /\ ~Truthy(msg.subtype)
  /\ Truthy(msg.text)

\* the filter predicate of fetchTodaysMessages
isRelevant(msg) ==
  /\ ~Truthy(msg.botId)
  /\ ~Truthy(msg.subtype)
  /\ Truthy(msg.text)
  /\ Truthy(msg.user)

\* fetchTodaysMessages after the history arrived: the filtered messages
filterMessages(messages) == SelectSeq(messages, isRelevant)

\* history answers: direct fetches draw pages over every raw record, mention
\* handlers over three of them
PagesOver(S, n) == {Rejected, Empty} \cup { With(pg) : pg \in SeqsUpTo(S, n) }
CallPages == PagesOver(RawMsgs, MaxPage)
HandlerPages == PagesOver({RawGood1, RawGood2, RawBot}, MaxHist)

\* -------------------------------------------------------- mention texts
\* A text is a sequence of tokens: "M" a mention token <@U...>, "s" a
\* whitespace character, "w" and "v" two other characters.
MentionTexts == { <<"M">>, <<"s", "M", "s", "w", "s", "M", "s">> }

\* every short text, with or without a mention token
Chars == {"M", "s", "w", "v"}
Texts == SeqsUpTo(Chars, MaxText)

DefaultQuestion == << "Summarize today's messages" >>

\* faulty variant: the pattern is global, every mention token is removed
removeEveryMention(t) == SelectSeq(t, LAMBDA c : c # "M")

\* String.prototype.replace with the non-global pattern /<@[A-Z0-9]+>/
RECURSIVE removeFirstMention(_)
removeFirstMention(t) ==
  IF t = <<>> THEN <<>>
  ELSE IF Head(t) = "M" THEN Tail(t)
  ELSE <<Head(t)>> \o removeFirstMention(Tail(t))

\* String.prototype.trim
RECURSIVE trimStart(_)
trimStart(t) == IF t # <<>> /\ Head(t) = "s" THEN trimStart(Tail(t)) ELSE t
RECURSIVE trimEnd(_)
trimEnd(t) ==
  IF t # <<>> /\ t[Len(t)] = "s" THEN trimEnd(SubSeq(t, 1, Len(t) - 1)) ELSE t
trim(t) == trimEnd(trimStart(t))

extractQuestion(mentionText) ==
  LET textWithoutMention == trim(removeFirstMention(mentionText))
  IN IF textWithoutMention = <<>> THEN DefaultQuestion ELSE textWithoutMention

\* ------------------------------------------------------------- getAnswer
RateLimitApology ==
  "I'm sorry, but I've reached my API limit. Please try again later or contact the administrator to add billing information."
AuthApology ==
  "I'm sorry, but there's an issue with my API authentication. Please contact the administrator."
TooShortApology ==
  "I apologize, but I couldn't generate a proper answer. This might be because there weren't enough messages to analyze or the messages were too brief. Please try again with more messages."
GenericApology ==
  "I'm sorry, but I encountered an error while trying to answer your question. Please try again later."
HandlerApology ==
  "Sorry, I encountered an error while processing your request. Please try again later."

TooShortMessage == "Generated answer is too short or empty"

\* texts the provider may return as the first choice's content
Text19 == "Nineteen chars long"
Text20 == "Twenty chars long :)"
length(str) ==
  CASE str = "" -> 0
    [] str = Text19 -> 19
    [] str = Text20 -> 20

MinAnswerLength == 20

NoStatus == 0 - 1       \* the thrown error carries no status field
Error(status, message) == [status |-> status, message |-> message]

\* chat.completions.create answers: it rejects with an error, or resolves
\* with the list of the choices' message contents
CompletionResponses ==
  { [kind |-> "error", error |-> Error(429, "Rate limit reached")],
    [kind |-> "error", error |-> Error(401, "Incorrect API key provided")],
    [kind |-> "error", error |-> Error(500, "The server had an error")],
    [kind |-> "error", error |-> Error(NoStatus, "Connection error.")],
    With(<<>>), With(<<Absent>>), With(<<"">>), With(<<Text19>>), With(<<Text20>>) }

NoError == Error(NoStatus, "")

\* faulty variant: the validation checks presence only, not the length
thrownInTryAnyLength(resp) ==
  IF resp.kind = "error" THEN resp.error
  ELSE IF resp.val = <<>>
    THEN Error(NoStatus, "Cannot read properties of undefined")
  ELSE IF ~Truthy(resp.val[1]) THEN Error(NoStatus, TooShortMessage)
  ELSE NoError

\* the error the try block of getAnswer throws on an answer, NoError if none
thrownInTry(resp) ==
  IF resp.kind = "error" THEN resp.error
  ELSE IF resp.val = <<>>
    THEN Error(NoStatus, "Cannot read properties of undefined")
  ELSE LET answer == resp.val[1]
       IN IF ~Truthy(answer) \/ length(answer) < MinAnswerLength
            THEN Error(NoStatus, TooShortMessage)
            ELSE NoError

\* faulty variant: the catch block tests the status 429 only
fallbackForRateLimitOnly(error) ==
  IF error.status = 429 THEN RateLimitApology
  ELSE IF error.message = TooShortMessage THEN TooShortApology
  ELSE GenericApology

\* faulty variant: the last branch hands out the message of the error
fallbackForWithMessage(error) ==
  IF error.status = 429 THEN RateLimitApology
  ELSE IF error.status = 401 THEN AuthApology
  ELSE IF error.message = TooShortMessage THEN TooShortApology
  ELSE error.message

\* the catch block of getAnswer
fallbackFor(error) ==
  IF error.status = 429 THEN RateLimitApology
  ELSE IF error.status = 401 THEN AuthApology
  ELSE IF error.message = TooShortMessage THEN TooShortApology
  ELSE GenericApology

\* what getAnswer resolves to once the completion call has answered
getAnswer(resp) ==
  LET error == thrownInTry(resp)
  IN IF error = NoError THEN resp.val[1] ELSE fallbackFor(error)

\* ------------------------------------------------- the prompt of getAnswer
\* a message text of two lines, as the platform delivers a multi-line message
TwoLineText == "one\ntwo"

\* String.prototype.split on the newline character
splitLines(str) ==
  CASE str = "hi" -> << "hi" >>
    [] str = "yo" -> << "yo" >>
    [] str = "auto" -> << "auto" >>
    [] str = TwoLineText -> << "one", "two" >>

\* new Date(ms).toLocaleTimeString() (server zone UTC)
toLocaleTimeString(ms) ==
  CASE ms = 43200000 -> "12:00:00 PM"
    [] ms = 126000000 -> "11:00:00 AM"

\* lines 16-20: one message rendered; the rendered string, cut at its
\* newlines, is a sequence of lines, and a line is a sequence of pieces
formatMessage(msg, names) ==
  LET userName == IF msg.user \in DOMAIN names
                    THEN OrElse(names[msg.user], msg.user) ELSE msg.user
      timestamp == toLocaleTimeString(parseInt(msg.ts) * 1000)
      text == splitLines(msg.text)
  IN << << "[", timestamp, "] ", userName, ": ", text[1] >> >>
       \o [n \in 1..(Len(text) - 1) |-> << text[n + 1] >>]

\* join('\n') of rendered strings, as the sequence of the lines of the result
RECURSIVE joinLines(_)
joinLines(rendered) ==
  IF rendered = <<>> THEN <<>> ELSE Head(rendered) \o joinLines(Tail(rendered))

\* lines 14-22
formatMessagesForOpenAI(messages, names) ==
  joinLines([n \in 1..Len(messages) |-> formatMessage(messages[n], names)])

\* faulty variant: bots are not excluded
everyMember(members) == DOMAIN members

\* `.filter((member) => !member.isBot)` (lines 37, 43), as identifiers
nonBots(members) == { u \in DOMAIN members : ~members[u].isBot }

\* Object.values of the roster entries with the given keys, in one fixed
\* order of the keys
RECURSIVE valuesOf(_, _)
valuesOf(members, keys) ==
  IF keys = {} THEN <<>>
  ELSE LET u == CHOOSE x \in keys : TRUE
       IN << members[u] >> \o valuesOf(members, keys \ {u})

\* line 38
memberLine(member) == << << member.real_name, " (", member.name, ")" >> >>

\* lines 36-39
formattedMembers(members) ==
  LET listed == valuesOf(members, nonBots(members))
  IN joinLines([n \in 1..Len(listed) |-> memberLine(listed[n])])

\* lines 41-49: the parts of the prompt that vary
prompt(question, messages, names, members) ==
  [question |-> question,
   count |-> Cardinality(nonBots(members)),
   members |-> formattedMembers(members),
   transcript |-> formatMessagesForOpenAI(messages, names)]

\* arguments of direct calls of getAnswer: messages as fetchTodaysMessages
\* returns them, name maps and rosters as the handler builds them
PromptMessages ==
  { toSlackMessage(RawGood1), toSlackMessage(RawGood2),
    toSlackMessage(Msg("U2", TwoLineText, TsToday, Absent, Absent)) }
PromptNames == { EmptyMap, [u \in {"U1"} |-> "Al"] }
PromptRosters ==
  UNION { [ids -> Profiles] : ids \in SUBSET UserIds }

\* ------------------------------------------------------------- the state
\* Invocations: each mention event runs one app_mention handler; direct
\* calls of the public primitives are made one after the other by a caller
\* that awaits each call before it makes the next.
Handlers == {1, 2}
FirstCall == Cardinality(Handlers) + 1
CallIds == FirstCall .. (FirstCall + MaxCalls - 1)
Ids == Handlers \cup CallIds

EventTs == { "130000.000900" }

VARIABLES
  channelMembers,  \* SlackService.channelMembers: the process-wide roster cache
  userNames,       \* SlackService.userNames: the process-wide name cache
  pc,              \* per invocation: the await it is suspended on
  ev,              \* per handler: the app_mention event (channel, text, ts)
  roster,          \* per invocation: its getChannelMembers call
  hist,            \* per invocation: its fetchTodaysMessages call
  name,            \* per invocation: its getUserName calls
  loc,             \* per handler: question, userNames (local), loop index, answer
  reactions,       \* per handler: reactions added to the platform
  completions,     \* per handler: completion requests issued, with arguments
  posts,           \* per handler: messages posted to the platform
  failed,          \* per invocation: the calls of it that rejected so far
  ret              \* per invocation: how it ended (resolved value or rejection)

vars == <<channelMembers, userNames, pc, ev, roster, hist, name, loc,
          reactions, completions, posts, failed, ret>>

NoEvent == [channel |-> "", text |-> <<>>, ts |-> ""]
IdleRoster ==
  [st |-> "idle", channel |-> "", resp |-> Empty, pending |-> {},
   got |-> EmptyMap, issued |-> <<>>, refused |-> {}]
IdleHist ==
  [st |-> "idle", channel |-> "", oldest |-> 0, latest |-> 0, resp |-> Empty,
   messages |-> <<>>, filtered |-> <<>>]
IdleName ==
  [st |-> "idle", user |-> "", lookups |-> <<>>, resp |-> Empty,
   before |-> EmptyMap]
NoLocals ==
  [question |-> <<>>, userNames |-> EmptyMap, k |-> 0, resp |-> Empty,
   answer |-> "", caught |-> FALSE]
Pending == [st |-> "pending", val |-> ""]
Resolved(v) == [st |-> "resolved", val |-> v]
Raised == [st |-> "rejected", val |-> ""]

Init ==
  /\ channelMembers = EmptyMap
  /\ userNames = EmptyMap
  /\ pc = [i \in Ids |-> "idle"]
  /\ ev = [h \in Handlers |-> NoEvent]
  /\ roster = [i \in Ids |-> IdleRoster]
  /\ hist = [i \in Ids |-> IdleHist]
  /\ name = [i \in Ids |-> IdleName]
  /\ loc = [h \in Handlers |-> NoLocals]
  /\ reactions = [h \in Handlers |-> <<>>]
  /\ completions = [i \in Ids |-> <<>>]
  /\ posts = [h \in Handlers |-> <<>>]
  /\ failed = [i \in Ids |-> {}]
  /\ ret = [i \in Ids |-> Pending]

\* ------------------------------------------------- getChannelMembers
\* lines 223-225: the member list is requested
startRoster(channelId) ==
  [IdleRoster EXCEPT !.st = "members", !.channel = channelId]

\* the ChannelMember built from a profile (lines 245-250)
toMember(memberId, user) ==
  [id |-> memberId, name |-> OrElse(user.name, ""),
   real_name |-> OrElse(user.real_name, ""),
   isBot |-> (user.is_bot = "true")]

\* lines 227-260 once conversations.members answered: a rejection is
\* rethrown; an answer without members resolves to {}; otherwise every
\* member is taken from the cache or its profile is requested, all in the
\* same turn, and Promise.all waits for the requested ones
membersAnswered(r, resp, cache) ==
  IF resp.kind = "error" THEN [r EXCEPT !.st = "rejected", !.resp = resp]
  ELSE IF resp.kind = "empty" THEN [r EXCEPT !.st = "resolved", !.resp = resp]
  ELSE LET members == Range(resp.val)
           cached == members \cap DOMAIN cache
           missing == members \ DOMAIN cache
           isMissing(memberId) == memberId \in missing
       IN [r EXCEPT !.st = IF missing = {} THEN "resolved" ELSE "lookups",
                    !.resp = resp,
                    !.got = [u \in cached |-> cache[u]],
                    !.pending = missing,
                    !.issued = SelectSeq(resp.val, isMissing)]

\* faulty variant: a member whose lookup failed is left out of the roster
lookupAnsweredSkipping(r, memberId, resp) ==
  LET left == r.pending \ {memberId}
      st == IF r.st = "lookups" /\ left = {} THEN "resolved" ELSE r.st
  IN IF resp.kind # "ok"
       THEN [r EXCEPT !.pending = left, !.refused = @ \cup {memberId}, !.st = st]
       ELSE [r EXCEPT !.pending = left,
                      !.got = Put(r.got, memberId, toMember(memberId, resp.val)),
                      !.st = st]

\* lines 237-253 once users.info answered for memberId: a rejection or an
\* answer without user rejects the member's promise, and Promise.all
\* rejects at the first such rejection; otherwise the member is built
lookupAnswered(r, memberId, resp) ==
  LET left == r.pending \ {memberId}
  IN IF resp.kind # "ok"
       THEN [r EXCEPT !.pending = left, !.refused = @ \cup {memberId},
                      !.st = IF r.st = "lookups" THEN "rejected" ELSE r.st]
       ELSE [r EXCEPT !.pending = left,
                      !.got = Put(r.got, memberId, toMember(memberId, resp.val)),
                      !.st = IF r.st = "lookups" /\ left = {}
                               THEN "resolved" ELSE r.st]

\* faulty variant: the resolved member is not stored in the cache
cacheMemberNever(cache, memberId, resp) == cache

\* line 252: the cache write of a resolved member
cacheMember(cache, memberId, resp) ==
  IF resp.kind = "ok" THEN Put(cache, memberId, toMember(memberId, resp.val))
  ELSE cache

\* ------------------------------------------------------- getUserName
\* line 282
displayName(userId, user) == OrElse(user.real_name, OrElse(user.name, userId))

\* faulty variant: a failed lookup resolves to the empty string
nameAnsweredOrNothing(userId, resp) ==
  IF resp.kind = "ok" THEN displayName(userId, resp.val) ELSE ""

\* lines 278-288: what getUserName resolves to once users.info answered
nameAnswered(userId, resp) ==
  IF resp.kind = "ok" THEN displayName(userId, resp.val) ELSE userId

\* faulty variant: the fallback identifier is cached as well
cacheNameAlways(cache, userId, resp) ==
  Put(cache, userId, IF resp.kind = "ok" THEN displayName(userId, resp.val) ELSE userId)

\* faulty variant: a failed lookup evicts the entry of the identifier
cacheNameEvicting(cache, userId, resp) ==
  IF resp.kind = "ok" THEN Put(cache, userId, displayName(userId, resp.val))
  ELSE [x \in (DOMAIN cache) \ {userId} |-> cache[x]]

\* line 283: the cache write of a resolved name
cacheName(cache, userId, resp) ==
  IF resp.kind = "ok" THEN Put(cache, userId, displayName(userId, resp.val))
  ELSE cache

\* ----------------------------------------------- fetchTodaysMessages
\* lines 319-329: the bounds of today are computed (and logged), then the
\* history page is requested with channel and limit only.  The bounds are
\* kept in milliseconds (endOfDay is 23:59:59.999).
startHist(channelId, today) ==
  [IdleHist EXCEPT !.st = "history", !.channel = channelId,
                   !.oldest = startOfDay(today), !.latest = endOfDay(today)]

\* lines 299-313 and 329-337 once conversations.history answered
historyAnswered(f, resp) ==
  IF resp.kind = "error" THEN [f EXCEPT !.st = "rejected", !.resp = resp]
  ELSE [f EXCEPT !.st = "resolved", !.resp = resp,
                 !.messages = getChannelHistory(resp),
                 !.filtered = filterMessages(getChannelHistory(resp))]

\* ------------------------------------------------ the app_mention handler
\* faulty variant: the cache is never consulted
hasNameNever(map, userId) == FALSE

\* `if (this.userNames[userId])` (line 269), `if (!userNames[msg.user])`
\* (line 169)
hasName(map, userId) == userId \in DOMAIN map /\ Truthy(map[userId])

\* lines 168-172: the loop over the messages from index k on, up to the
\* first getUserName that has to ask the platform (wait) or to the end of
\* the messages; names found in the process-wide cache are taken from it
RECURSIVE backfill(_, _, _, _)
backfill(messages, k, local, cache) ==
  IF k > Len(messages) THEN [k |-> k, local |-> local, wait |-> FALSE]
  ELSE LET userId == messages[k].user
       IN IF hasName(local, userId) THEN backfill(messages, k + 1, local, cache)
          ELSE IF hasName(cache, userId)
            THEN backfill(messages, k + 1, Put(local, userId, cache[userId]), cache)
          ELSE [k |-> k, local |-> local, wait |-> TRUE]

\* line 158
reactionArgs(e) == [channel |-> e.channel, timestamp |-> e.ts, name |-> "eyes"]

\* faulty variant: the answer is posted without the thread anchor
answerPostUnthreaded(e, text) ==
  [channel |-> e.channel, text |-> text, thread_ts |-> Absent]

\* line 178 with sendMessage (lines 195-199)
answerPost(e, text) == [channel |-> e.channel, text |-> text, thread_ts |-> e.ts]

\* line 181: say is called with the text alone; it posts to the event's
\* channel and passes no thread_ts
apologyPost(e) ==
  [channel |-> e.channel, text |-> HandlerApology, thread_ts |-> Absent]

\* line 175: the arguments of getAnswer
answerArgs(question, messages, names, members) ==
  [question |-> question, messages |-> messages, userNames |-> names,
   channelMembers |-> members]

\* faulty variant: the completion request is sent again after the first
createCompletionTwice(requests, args) == Append(Append(requests, args), args)

\* lines 51-68: getAnswer sends one completion request
createCompletion(requests, args) == Append(requests, args)

\* lines 166-175 from message k on, with the handler's name map `local`, its
\* getUserName frame nf and the name cache as they are now: the loop runs
\* to its next lookup, or to its end and then getAnswer issues the
\* completion request
namesFrom(h, messages, members, k, local, nf, cache) ==
  LET b == backfill(messages, k, local, cache)
  IN IF b.wait
       THEN /\ pc' = [pc EXCEPT ![h] = "names"]
            /\ loc' = [loc EXCEPT ![h].userNames = b.local, ![h].k = b.k]
            /\ name' = [name EXCEPT ![h] =
                 [nf EXCEPT !.st = "lookup", !.user = messages[b.k].user,
                            !.lookups = Append(nf.lookups, messages[b.k].user),
                            !.before = cache]]
            /\ UNCHANGED completions
       ELSE /\ pc' = [pc EXCEPT ![h] = "complete"]
            /\ loc' = [loc EXCEPT ![h].userNames = b.local, ![h].k = b.k]
            /\ name' = [name EXCEPT ![h] = nf]
            /\ completions' = [completions EXCEPT ![h] =
                 createCompletion(@, answerArgs(loc[h].question, messages,
                                                b.local, members))]

\* faulty variant: only the history fetch is awaited
allSettledHistoryOnly(r, f) ==
  \/ r.st = "rejected"
  \/ f.st \in {"rejected", "resolved"}

\* Promise.all of lines 161-164 settles: it rejects at the first rejection
\* of the two, and resolves when both have resolved
allSettled(r, f) ==
  \/ r.st = "rejected"
  \/ f.st = "rejected"
  \/ (r.st = "resolved" /\ f.st = "resolved")

\* the handler after a step of its roster or history call (frames r, f as
\* they are after the step): nothing while Promise.all is unsettled or when
\* the handler is already past it; the catch block on a rejection; the
\* name loop when both resolved
afterFetch(h, r, f) ==
  IF pc[h] # "fetch" \/ ~allSettled(r, f)
    THEN UNCHANGED <<pc, loc, name, completions>>
  ELSE IF r.st = "rejected" \/ f.st = "rejected"
    THEN /\ pc' = [pc EXCEPT ![h] = "say"]
         /\ loc' = [loc EXCEPT ![h].caught = TRUE]
         /\ UNCHANGED <<name, completions>>
  ELSE namesFrom(h, f.filtered, r.got, 1, EmptyMap, name[h], userNames)

\* a direct getChannelMembers call returns to its caller when it settles
rosterCallSettles(k, r) ==
  /\ IF pc[k] = "roster" /\ r.st \in {"resolved", "rejected"}
       THEN /\ pc' = [pc EXCEPT ![k] = "done"]
            /\ ret' = [ret EXCEPT ![k] =
                 IF r.st = "resolved" THEN Resolved(r.got) ELSE Raised]
       ELSE UNCHANGED <<pc, ret>>
  /\ UNCHANGED <<loc, name, completions>>

\* the rejection of an awaited call is noted
noted(i, call, resp) ==
  failed' = [failed EXCEPT ![i] = IF resp.kind = "error" THEN @ \cup {call} ELSE @]

\* answers to a call whose payload is not used
Acks == {Rejected, With("ok")}

\* faulty variant: a handler resumes only while no other handler is under way
readyAlone(h, at) ==
  pc[h] = at /\ \A g \in Handlers \ {h} : pc[g] \in {"idle", "done"}

\* faulty variant: the apology is sent from a finally block, so also after
\* the try block has completed
readyOrCompleted(h, at) ==
  pc[h] = at \/ (at = "say" /\ pc[h] = "done" /\ ~loc[h].caught /\ posts[h] # <<>>)

\* the handler is suspended on the await `at`; it resumes when that call is
\* answered, whatever the other handlers are doing
ready(h, at) == pc[h] = at

\* faulty variant: the wrapper logs the failure and returns normally
swallowed(resp) == FALSE

\* the catch blocks of reactToMessage (lines 214-217) and sendMessage (lines
\* 200-203) log the failure of the platform call and throw it again
rethrown(resp) == resp.kind = "error"

\* lines 132-158: a mention event arrives; the question is extracted and
\* the reaction is requested
MentionWith(h, text) ==
  /\ pc[h] = "idle"
  /\ \E channel \in Channels, ts \in EventTs :
       /\ ev' = [ev EXCEPT ![h] = [channel |-> channel, text |-> text, ts |-> ts]]
       /\ loc' = [loc EXCEPT ![h].question = extractQuestion(text)]
  /\ pc' = [pc EXCEPT ![h] = "react"]
  /\ UNCHANGED <<channelMembers, userNames, roster, hist, name, reactions,
                 completions, posts, failed, ret>>

Mention(h) == \E text \in MentionTexts : MentionWith(h, text)

\* lines 158-164 and 207-218 once reactions.add answered: a rejection is
\* rethrown into the catch block (line 181, say is called); otherwise the
\* member list and the history page are both requested
ReactionAnsweredFrom(h, answers) ==
  /\ ready(h, "react")
  /\ \E resp \in answers :
       /\ noted(h, "reactions.add", resp)
       /\ IF rethrown(resp)
            THEN /\ pc' = [pc EXCEPT ![h] = "say"]
                 /\ loc' = [loc EXCEPT ![h].caught = TRUE]
                 /\ UNCHANGED <<roster, hist, reactions>>
            ELSE /\ reactions' = [reactions EXCEPT ![h] = Append(@, reactionArgs(ev[h]))]
                 /\ roster' = [roster EXCEPT ![h] = startRoster(ev[h].channel)]
                 /\ \E today \in Clock :
                      hist' = [hist EXCEPT ![h] = startHist(ev[h].channel, today)]
                 /\ pc' = [pc EXCEPT ![h] = "fetch"]
                 /\ UNCHANGED loc
  /\ UNCHANGED <<channelMembers, userNames, ev, name, completions, posts, ret>>

ReactionAnswered(h) == ReactionAnsweredFrom(h, Acks)

\* conversations.members answers the getChannelMembers call of invocation i
MembersAnsweredFrom(i, answers) ==
  /\ roster[i].st = "members"
  /\ \E resp \in answers :
       /\ roster' = [roster EXCEPT ![i] = membersAnswered(@, resp, channelMembers)]
       /\ noted(i, "conversations.members", resp)
  /\ IF i \in Handlers
       THEN afterFetch(i, roster'[i], hist[i]) /\ UNCHANGED ret
       ELSE rosterCallSettles(i, roster'[i])
  /\ UNCHANGED <<channelMembers, userNames, ev, hist, reactions, posts>>

MembersAnswered(i) == MembersAnsweredFrom(i, MembersResponses)

\* users.info answers one member lookup of invocation i's getChannelMembers
\* (also after the call has already rejected on another member)
LookupAnsweredFrom(i, memberId, answers) ==
  /\ memberId \in roster[i].pending
  /\ \E resp \in answers :
       /\ roster' = [roster EXCEPT ![i] = lookupAnswered(@, memberId, resp)]
       /\ channelMembers' = cacheMember(channelMembers, memberId, resp)
       /\ noted(i, "users.info", resp)
  /\ IF i \in Handlers
       THEN afterFetch(i, roster'[i], hist[i]) /\ UNCHANGED ret
       ELSE rosterCallSettles(i, roster'[i])
  /\ UNCHANGED <<userNames, ev, hist, reactions, posts>>

LookupAnswered(i, memberId) == LookupAnsweredFrom(i, memberId, LookupResponses)

\* conversations.history answers the fetchTodaysMessages call of invocation i
HistoryAnsweredFrom(i, answers) ==
  /\ hist[i].st = "history"
  /\ \E resp \in answers :
       /\ hist' = [hist EXCEPT ![i] = historyAnswered(@, resp)]
       /\ noted(i, "conversations.history", resp)
  /\ IF i \in Handlers
       THEN afterFetch(i, roster[i], hist'[i]) /\ UNCHANGED ret
       ELSE /\ pc' = [pc EXCEPT ![i] = "done"]
            /\ ret' = [ret EXCEPT ![i] =
                 IF hist'[i].st = "resolved" THEN Resolved(hist'[i].filtered)
                 ELSE Raised]
            /\ UNCHANGED <<loc, name, completions>>
  /\ UNCHANGED <<channelMembers, userNames, ev, roster, reactions, posts>>

HistoryAnswered(i) ==
  HistoryAnsweredFrom(i, IF i \in Handlers THEN HandlerPages ELSE CallPages)

\* users.info answers the getUserName lookup of invocation i (lines 274-288):
\* the name is cached and returned, or the raw identifier is returned; a
\* handler stores it in its map and goes on with the loop (lines 168-175)
NameAnsweredFrom(i, answers) ==
  /\ name[i].st = "lookup"
  /\ \E resp \in answers :
       LET userId == name[i].user
           result == nameAnswered(userId, resp)
           nf == [name[i] EXCEPT !.st = "idle", !.resp = resp]
       IN /\ userNames' = cacheName(userNames, userId, resp)
          /\ noted(i, "users.info", resp)
          /\ IF i \in Handlers
               THEN /\ namesFrom(i, hist[i].filtered, roster[i].got, loc[i].k + 1,
                                 Put(loc[i].userNames, userId, result), nf,
                                 userNames')
                    /\ UNCHANGED ret
               ELSE /\ name' = [name EXCEPT ![i] = nf]
                    /\ pc' = [pc EXCEPT ![i] = "done"]
                    /\ ret' = [ret EXCEPT ![i] = Resolved(result)]
                    /\ UNCHANGED <<loc, completions>>
  /\ UNCHANGED <<channelMembers, ev, roster, hist, reactions, posts>>

NameAnswered(i) == NameAnsweredFrom(i, LookupResponses)

\* chat.completions.create answers (lines 70-91, 175-178): getAnswer
\* resolves to a text and the handler requests the threaded post of it
CompletionAnsweredFrom(h, answers) ==
  /\ ready(h, "complete")
  /\ \E resp \in answers :
       /\ loc' = [loc EXCEPT ![h].resp = resp, ![h].answer = getAnswer(resp)]
       /\ noted(h, "chat.completions.create", resp)
  /\ pc' = [pc EXCEPT ![h] = "post"]
  /\ UNCHANGED <<channelMembers, userNames, ev, roster, hist, name, reactions,
                 completions, posts, ret>>

CompletionAnswered(h) == CompletionAnsweredFrom(h, CompletionResponses)

\* chat.postMessage of sendMessage answers (lines 178-181, 193-204): the
\* handler returns, or the rejection is rethrown into the catch block
PostAnswered(h) ==
  /\ ready(h, "post")
  /\ \E resp \in Acks :
       /\ noted(h, "chat.postMessage", resp)
       /\ IF rethrown(resp)
            THEN /\ pc' = [pc EXCEPT ![h] = "say"]
                 /\ loc' = [loc EXCEPT ![h].caught = TRUE]
                 /\ UNCHANGED <<posts, ret>>
            ELSE /\ posts' = [posts EXCEPT ![h] =
                      Append(@, answerPost(ev[h], loc[h].answer))]
                 /\ pc' = [pc EXCEPT ![h] = "done"]
                 /\ ret' = [ret EXCEPT ![h] = Resolved("")]
                 /\ UNCHANGED loc
  /\ UNCHANGED <<channelMembers, userNames, ev, roster, hist, name, reactions,
                 completions>>

\* the post of say answers (line 181): the handler returns, or it rejects
\* with nothing posted
SayAnswered(h) ==
  /\ ready(h, "say")
  /\ \E resp \in Acks :
       /\ noted(h, "say", resp)
       /\ IF resp.kind = "error"
            THEN /\ ret' = [ret EXCEPT ![h] = Raised]
                 /\ UNCHANGED posts
            ELSE /\ posts' = [posts EXCEPT ![h] = Append(@, apologyPost(ev[h]))]
                 /\ ret' = [ret EXCEPT ![h] = Resolved("")]
  /\ pc' = [pc EXCEPT ![h] = "done"]
  /\ UNCHANGED <<channelMembers, userNames, ev, roster, hist, name, loc,
                 reactions, completions>>

\* ------------------------------------------- direct calls of the primitives
\* the caller awaits each call before it makes the next
canCall(k) == pc[k] = "idle" /\ (k = FirstCall \/ pc[k - 1] = "done")

\* getUserName(userId), lines 268-276: answered from the cache, or the
\* profile is requested
CallGetUserName(k, userId) ==
  /\ canCall(k)
  /\ IF hasName(userNames, userId)
       THEN /\ name' = [name EXCEPT ![k] =
                 [IdleName EXCEPT !.user = userId, !.before = userNames]]
            /\ pc' = [pc EXCEPT ![k] = "done"]
            /\ ret' = [ret EXCEPT ![k] = Resolved(userNames[userId])]
       ELSE /\ name' = [name EXCEPT ![k] =
                 [IdleName EXCEPT !.st = "lookup", !.user = userId,
                                  !.lookups = <<userId>>, !.before = userNames]]
            /\ pc' = [pc EXCEPT ![k] = "name"]
            /\ UNCHANGED ret
  /\ UNCHANGED <<channelMembers, userNames, ev, roster, hist, loc, reactions,
                 completions, posts, failed>>

\* getChannelMembers(channelId), lines 221-225
CallGetChannelMembers(k, channelId) ==
  /\ canCall(k)
  /\ roster' = [roster EXCEPT ![k] = startRoster(channelId)]
  /\ pc' = [pc EXCEPT ![k] = "roster"]
  /\ UNCHANGED <<channelMembers, userNames, ev, hist, name, loc, reactions,
                 completions, posts, failed, ret>>

\* fetchTodaysMessages(channelId, logger), lines 317-329
CallFetchTodaysMessages(k, channelId) ==
  /\ canCall(k)
  /\ \E today \in Clock :
       hist' = [hist EXCEPT ![k] = startHist(channelId, today)]
  /\ pc' = [pc EXCEPT ![k] = "hist"]
  /\ UNCHANGED <<channelMembers, userNames, ev, roster, name, loc, reactions,
                 completions, posts, failed, ret>>

\* getAnswer(question, messages, userNames, channelMembers, logger) called
\* directly, lines 25-68: the prompt is built and the completion requested
CallGetAnswer(k) ==
  /\ canCall(k)
  /\ \E messages \in SeqsUpTo(PromptMessages, MaxPrompt),
        names \in PromptNames, profiles \in PromptRosters :
       completions' = [completions EXCEPT ![k] =
         createCompletion(@, answerArgs(DefaultQuestion, messages, names,
           [u \in DOMAIN profiles |-> toMember(u, profiles[u])]))]
  /\ pc' = [pc EXCEPT ![k] = "answer"]
  /\ UNCHANGED <<channelMembers, userNames, ev, roster, hist, name, loc,
                 reactions, posts, failed, ret>>

\* lines 70-91: the completion is answered, getAnswer returns a text
GetAnswerAnswered(k) ==
  /\ pc[k] = "answer"
  /\ \E resp \in CompletionResponses :
       /\ ret' = [ret EXCEPT ![k] = Resolved(getAnswer(resp))]
       /\ noted(k, "chat.completions.create", resp)
  /\ pc' = [pc EXCEPT ![k] = "done"]
  /\ UNCHANGED <<channelMembers, userNames, ev, roster, hist, name, loc,
                 reactions, completions, posts>>

\* ------------------------------------------------------ specifications
\* one mention handled from start to end (the second handler stays idle)
Next ==
  \E h \in {1} :
    \/ Mention(h)
    \/ ReactionAnswered(h)
    \/ MembersAnswered(h)
    \/ \E u \in UserIds : LookupAnswered(h, u)
    \/ HistoryAnswered(h)
    \/ NameAnswered(h)
    \/ CompletionAnswered(h)
    \/ PostAnswered(h)
    \/ SayAnswered(h)

Spec == Init /\ [][Next]_vars

\* two mention events handled concurrently: the steps of the two handlers
\* interleave in any order.  The platform answers are drawn from smaller
\* sets: one member, one or two authors, and profiles that may be renamed
\* between two lookups.
Renamed == { p \in Profiles : p.real_name # Absent }
ConcMembers == { Rejected, With(<<"U1">>) }
ConcLookups == { Empty } \cup { With(p) : p \in Renamed }
ConcPages == { With(<<RawGood1, RawGood1>>), With(<<RawGood1, RawGood2>>) }
ConcCompletions == { With(<<Text20>>) }

Step(h) ==
  \/ MentionWith(h, <<"M">>)
  \/ ReactionAnsweredFrom(h, Acks)
  \/ MembersAnsweredFrom(h, ConcMembers)
  \/ \E u \in UserIds : LookupAnsweredFrom(h, u, ConcLookups)
  \/ HistoryAnsweredFrom(h, ConcPages)
  \/ NameAnsweredFrom(h, ConcLookups)
  \/ CompletionAnsweredFrom(h, ConcCompletions)
  \/ PostAnswered(h)
  \/ SayAnswered(h)

NextConc == \E h \in Handlers : Step(h)

SpecConc == Init /\ [][NextConc]_vars

\* the same two handlers, where every call of the first is answered and its
\* continuation is run by the event loop, while the calls of the second may
\* stay unanswered for ever
SpecStall == Init /\ [][NextConc]_vars /\ WF_vars(Step(1))

\* getUserName and getChannelMembers called directly, one call after the other
NextCalls ==
  \E k \in CallIds :
    \/ \E u \in UserIds : CallGetUserName(k, u)
    \/ \E c \in Channels : CallGetChannelMembers(k, c)
    \/ MembersAnswered(k)
    \/ \E u \in UserIds : LookupAnswered(k, u)
    \/ NameAnswered(k)

SpecCalls == Init /\ [][NextCalls]_vars

\* fetchTodaysMessages called directly
NextFetch ==
  \E k \in {FirstCall} :
    \/ \E c \in Channels : CallFetchTodaysMessages(k, c)
    \/ HistoryAnswered(k)

SpecFetch == Init /\ [][NextFetch]_vars

\* the question is derived from a mention text of any shape
NextQuestion == \E h \in {1}, text \in Texts : MentionWith(h, text)

SpecQuestion == Init /\ [][NextQuestion]_vars

\* getAnswer called directly
NextPrompt ==
  \E k \in {FirstCall} :
    \/ CallGetAnswer(k)
    \/ GetAnswerAnswered(k)

SpecPrompt == Init /\ [][NextPrompt]_vars

\* ------------------------------------------------------------- claims
finished(h) == pc[h] = "done"
reacted(h) == reactions[h] # <<>>
threadedTo(h, post) == post.channel = ev[h].channel /\ post.thread_ts = ev[h].ts

\* C1: whenever an exception reaches the catch block of a mention handling
\* after the reaction succeeded, the handling ends with exactly one message
\* posted, the generic apology, threaded to the triggering message's ts.
C1_BackstopThreadedApology ==
  \A h \in Handlers :
    (finished(h) /\ reacted(h) /\ loc[h].caught) =>
      /\ Len(posts[h]) = 1
      /\ posts[h][1].text = HandlerApology
      /\ threadedTo(h, posts[h][1])

\* C2: a mention handling ends only after some message has been posted to
\* the thread of the triggering message, whichever calls failed.
C2_AlwaysRepliesInThread ==
  \A h \in Handlers :
    finished(h) => \E n \in 1..Len(posts[h]) : threadedTo(h, posts[h][n])

\* what one mention handling does besides the text of its reply: one eyes
\* reaction on the triggering message, one completion request with the
\* derived question, the filtered messages and the roster, one threaded post
oneOfEach(h) ==
  /\ reactions[h] =
       << [channel |-> ev[h].channel, timestamp |-> ev[h].ts, name |-> "eyes"] >>
  /\ Len(completions[h]) = 1
  /\ completions[h][1].question = extractQuestion(ev[h].text)
  /\ completions[h][1].messages = hist[h].filtered
  /\ roster[h].st = "resolved"
  /\ completions[h][1].channelMembers = roster[h].got
  /\ Len(posts[h]) = 1
  /\ threadedTo(h, posts[h][1])

\* C3 as stated: when no call fails (none rejects, and every member lookup
\* is answered with a user), one reaction, one completion request and one
\* threaded post are made, and the post's text is the text the completion
\* returned.
C3_NoFailureRepliesReturnedText ==
  \A h \in Handlers :
    (finished(h) /\ failed[h] = {} /\ roster[h].st = "resolved") =>
      /\ oneOfEach(h)
      /\ loc[h].resp.val # <<>> => posts[h][1].text = loc[h].resp.val[1]

\* C3 amended: when no call fails and every member lookup is answered with a
\* user, one reaction, one completion request and one threaded post are
\* made; the post's text is the text the completion returned when that text
\* is present and at least 20 characters long, the too-short apology when
\* it is absent or shorter, and the generic completion apology when the
\* completion returned no choice.
C3_NoFailureRepliesAnswerOrFallback ==
  \A h \in Handlers :
    (finished(h) /\ failed[h] = {} /\ roster[h].st = "resolved") =>
      /\ oneOfEach(h)
      /\ LET choices == loc[h].resp.val
         IN posts[h][1].text =
              IF choices = <<>> THEN GenericApology
              ELSE IF choices[1] \notin {Absent, ""} /\ length(choices[1]) >= 20
                THEN choices[1]
              ELSE TooShortApology

C3_Witness ==
  \E h \in Handlers :
    /\ finished(h) /\ failed[h] = {} /\ roster[h].st = "resolved"
    /\ DOMAIN roster[h].got = UserIds
    /\ Len(hist[h].filtered) = 2
    /\ posts[h] = << [channel |-> ev[h].channel, text |-> Text20,
                      thread_ts |-> ev[h].ts] >>

\* C4: in one mention handling the reaction has completed before the roster
\* or history request is issued; roster resolution and history fetch have
\* both completed before a name lookup starts; no name lookup is in flight
\* and every author is resolved when the completion request is issued; the
\* completion request has returned before anything is posted.
C4_StepOrder ==
  \A h \in Handlers :
    /\ (roster[h].st # "idle" \/ hist[h].st # "idle") =>
         (reacted(h) /\ pc[h] # "react")
    /\ (name[h].lookups # <<>> \/ completions[h] # <<>>) =>
         /\ roster[h].st = "resolved" /\ roster[h].pending = {}
         /\ hist[h].st = "resolved"
    /\ completions[h] # <<>> =>
         /\ name[h].st = "idle"
         /\ \A n \in 1..Len(hist[h].filtered) :
              hasName(completions[h][1].userNames, hist[h].filtered[n].user)
    /\ (completions[h] # <<>> /\ (posts[h] # <<>> \/ pc[h] \in {"post", "say"})) =>
         loc[h].resp # Empty
    /\ pc[h] = "complete" => (posts[h] = <<>> /\ loc[h].resp = Empty)

C4_Witness ==
  \E h \in Handlers :
    /\ finished(h)
    /\ Len(roster[h].issued) = 2
    /\ Len(name[h].lookups) = 2
    /\ Len(completions[h]) = 1
    /\ Len(posts[h]) = 1 /\ posts[h][1].text = loc[h].answer

\* the raw page a fetch was answered with
pageOf(f) == IF f.resp.kind = "ok" THEN f.resp.val ELSE <<>>

\* a raw record without any of the four defects
qualifies(m) ==
  /\ m.user \notin {Absent, ""}
  /\ m.text \notin {Absent, ""}
  /\ m.bot_id = Absent
  /\ m.subtype = Absent

\* C5: every message fetchTodaysMessages returns has a non-empty user, a
\* non-empty text, no botId and no subtype; the returned messages are, in
\* order, exactly the records of the raw page that have none of the four
\* defects (each defect alone disqualifies, no other record is dropped).
C5_OnlyRelevantMessages ==
  \A i \in Ids :
    hist[i].st = "resolved" =>
      LET kept == SelectSeq(pageOf(hist[i]), qualifies)
      IN /\ \A n \in 1..Len(hist[i].filtered) :
              LET msg == hist[i].filtered[n]
              IN /\ msg.user # "" /\ msg.text # ""
                 /\ msg.botId = Absent /\ msg.subtype = Absent
         /\ Len(hist[i].filtered) = Len(kept)
         /\ \A n \in 1..Len(kept) :
              /\ hist[i].filtered[n].user = kept[n].user
              /\ hist[i].filtered[n].text = kept[n].text
              /\ hist[i].filtered[n].ts = kept[n].ts

C5_Witness ==
  \E i \in CallIds :
    /\ hist[i].st = "resolved"
    /\ Len(pageOf(hist[i])) = 3
    /\ Len(hist[i].filtered) = 1
    /\ \E n \in 1..3 : pageOf(hist[i])[n].bot_id # Absent
    /\ \E n \in 1..3 : pageOf(hist[i])[n].text = ""

\* C6: every message fetchTodaysMessages returns has a timestamp within the
\* start-of-day..end-of-day bounds computed for today.
C6_OnlyTodaysMessages ==
  \A i \in Ids :
    hist[i].st = "resolved" =>
      \A n \in 1..Len(hist[i].filtered) :
        LET msg == hist[i].filtered[n]
        IN /\ msg.ts # ""
           /\ hist[i].oldest <= parseInt(msg.ts) * 1000
           /\ parseInt(msg.ts) * 1000 <= hist[i].latest

\* the direct calls of getChannelMembers and of getUserName
isRosterCall(k) == roster[k].st # "idle"
isNameCall(k) == name[k].user # ""
lookupsOf(k, memberId) ==
  Cardinality({ n \in 1..Len(roster[k].issued) : roster[k].issued[n] = memberId })

\* C7: when getChannelMembers is called twice in sequence for the same
\* channel and is answered the same member list, and the first call
\* returned a roster, then at most one profile lookup per member is issued
\* across both calls, the second call issues none, and each call returns a
\* map whose key set is the member identifiers of the list.
C7_RosterCaching ==
  \A k \in CallIds :
    (/\ k + 1 \in CallIds
     /\ isRosterCall(k) /\ ret[k].st = "resolved"
     /\ isRosterCall(k + 1) /\ roster[k + 1].st # "members"
     /\ roster[k + 1].channel = roster[k].channel
     /\ roster[k + 1].resp = roster[k].resp)
    => LET members == IF roster[k].resp.kind = "ok"
                        THEN Range(roster[k].resp.val) ELSE {}
       IN /\ roster[k + 1].issued = <<>>
          /\ \A u \in UserIds : lookupsOf(k, u) + lookupsOf(k + 1, u) <= 1
          /\ DOMAIN ret[k].val = members
          /\ ret[k + 1].st = "resolved"
          /\ DOMAIN ret[k + 1].val = members

C7_Witness ==
  \E k \in CallIds :
    /\ k + 1 \in CallIds
    /\ ret[k].st = "resolved" /\ ret[k + 1].st = "resolved"
    /\ isRosterCall(k) /\ isRosterCall(k + 1)
    /\ roster[k].resp = With(<<"U1", "U2">>)
    /\ roster[k + 1].resp = With(<<"U1", "U2">>)
    /\ Len(roster[k].issued) = 2

\* a direct getUserName call that asked the platform and got a profile
resolvedByLookup(k, userId) ==
  /\ isNameCall(k) /\ name[k].user = userId /\ pc[k] = "done"
  /\ name[k].lookups # <<>> /\ name[k].resp.kind = "ok"

\* a direct getUserName call whose lookup rejected or had no user
lookupFailed(k, userId) ==
  /\ isNameCall(k) /\ name[k].user = userId /\ pc[k] = "done"
  /\ name[k].lookups # <<>> /\ name[k].resp.kind # "ok"

\* C8: every getUserName call made after a successful resolution of the
\* same identifier issues no profile lookup and returns the string that
\* resolution returned, whatever profile the platform would answer now.
C8_NameCachingIdempotent ==
  \A j \in CallIds, k \in CallIds, u \in UserIds :
    (j < k /\ resolvedByLookup(j, u) /\ isNameCall(k) /\ name[k].user = u) =>
      /\ name[k].lookups = <<>>
      /\ ret[k] = ret[j]

C8_Witness ==
  \E j \in CallIds, k \in CallIds :
    /\ j < k /\ resolvedByLookup(j, "U1") /\ isNameCall(k) /\ name[k].user = "U1"
    /\ ret[k] = Resolved("Al")

\* C9: getUserName never raises; when its lookup rejects or is answered
\* without a user it returns the raw identifier and leaves the name cache as
\* it was, and the next call for that identifier asks the platform again.
C9_NameFallback ==
  /\ \A k \in CallIds : isNameCall(k) => ret[k].st # "rejected"
  /\ \A k \in CallIds, u \in UserIds :
       lookupFailed(k, u) =>
         /\ ret[k] = Resolved(u)
         /\ (\A j \in CallIds : j > k => pc[j] = "idle") =>
              userNames = name[k].before
         /\ \A j \in CallIds :
              (/\ j > k /\ isNameCall(j) /\ name[j].user = u
               /\ \A m \in CallIds : (k < m /\ m < j) => ~resolvedByLookup(m, u))
              => name[j].lookups = <<u>>

C9_Witness ==
  \E k \in CallIds :
    /\ k + 1 \in CallIds
    /\ lookupFailed(k, "U1") /\ failed[k] = {"users.info"}
    /\ resolvedByLookup(k + 1, "U1")

\* C10: once the completion call has answered, getAnswer has returned a
\* text and the handler goes on to post it; a rejection with status 429
\* gives the rate-limit apology, with status 401 the authentication
\* apology, and any other rejection the generic apology; these three and the
\* too-short apology are four different texts.
C10_ErrorKindMapping ==
  /\ Cardinality({RateLimitApology, AuthApology, GenericApology, TooShortApology}) = 4
  /\ \A h \in Handlers :
       loc[h].resp # Empty =>
         /\ loc[h].answer # ""
         /\ loc[h].caught => "chat.postMessage" \in failed[h]
         /\ loc[h].resp.kind = "error" =>
              loc[h].answer =
                CASE loc[h].resp.error.status = 429 -> RateLimitApology
                  [] loc[h].resp.error.status = 401 -> AuthApology
                  [] OTHER -> GenericApology

C10_Witness ==
  \E h \in Handlers :
    /\ loc[h].resp.kind = "error" /\ loc[h].resp.error.status = 401
    /\ Len(posts[h]) = 1 /\ posts[h][1].text = AuthApology

\* the first choice's text of a completion that succeeded with a choice
hasChoice(resp) == resp.kind = "ok" /\ resp.val # <<>>

\* C11: when the completion call succeeds, getAnswer returns the first
\* choice's text unchanged if and only if that text is present and at least
\* 20 characters long (19 is rejected, 20 accepted); when it is absent,
\* empty or shorter, getAnswer returns the too-short apology, never the raw
\* text.  (A completion without any choice has no first choice; getAnswer
\* then returns the generic apology.)
C11_AnswerValidation ==
  /\ length(Text19) = 19 /\ length(Text20) = 20
  /\ \A h \in Handlers :
       hasChoice(loc[h].resp) =>
         LET text == loc[h].resp.val[1]
             valid == text \notin {Absent, ""} /\ length(text) >= 20
         IN /\ (loc[h].answer = text) <=> valid
            /\ ~valid => loc[h].answer = TooShortApology
  /\ \A h \in Handlers :
       loc[h].resp = With(<<>>) => loc[h].answer = GenericApology

C11_Witness ==
  \E h \in Handlers :
    /\ loc[h].resp = With(<<Text19>>)
    /\ Len(posts[h]) = 1 /\ posts[h][1].text = TooShortApology

\* the fixed apology strings, and the messages of the errors that can be
\* raised inside getAnswer
Apologies ==
  {RateLimitApology, AuthApology, TooShortApology, GenericApology, HandlerApology}
ErrorMessages ==
  { r.error.message : r \in { q \in CompletionResponses : q.kind = "error" } }
    \cup {TooShortMessage, "Cannot read properties of undefined"}

\* C12: every text posted to the channel is the completion's returned answer
\* text or one of the five fixed apology strings; the message of a raised
\* error is never posted.
C12_OnlyAnswerOrApology ==
  \A h \in Handlers : \A n \in 1..Len(posts[h]) :
    LET text == posts[h][n].text
    IN /\ \/ text \in Apologies
          \/ /\ hasChoice(loc[h].resp)
             /\ text = loc[h].resp.val[1]
             /\ text \notin {Absent, ""}
       /\ text \notin ErrorMessages

C12_Witness ==
  \E h \in Handlers :
    /\ loc[h].resp.kind = "error" /\ loc[h].resp.error.status = 500
    /\ Len(posts[h]) = 1 /\ posts[h][1].text = GenericApology

\* the text t without its first mention token
withoutFirstMention(t) ==
  LET at == { i \in 1..Len(t) : t[i] = "M" }
  IN IF at = {} THEN t
     ELSE LET first == CHOOSE i \in at : \A j \in at : i <= j
          IN SubSeq(t, 1, first - 1) \o SubSeq(t, first + 1, Len(t))

\* the text t without its leading and trailing whitespace
stripped(t) ==
  LET blank(i) == t[i] = "s"
      lead == CHOOSE n \in 0..Len(t) :
                /\ \A i \in 1..n : blank(i)
                /\ n < Len(t) => ~blank(n + 1)
      trail == CHOOSE n \in 0..Len(t) :
                 /\ \A i \in (Len(t) - n + 1)..Len(t) : blank(i)
                 /\ n < Len(t) => ~blank(Len(t) - n)
  IN IF lead = Len(t) THEN <<>> ELSE SubSeq(t, lead + 1, Len(t) - trail)

mentionsIn(t) == Cardinality({ i \in 1..Len(t) : t[i] = "M" })

\* C13: for every mention text the question is the text without its first
\* mention token (later ones stay) and without leading and trailing
\* whitespace, verbatim, or "Summarize today's messages" when nothing
\* remains; the question is never empty.
C13_QuestionDerivation ==
  \A h \in Handlers :
    pc[h] # "idle" =>
      LET remainder == stripped(withoutFirstMention(ev[h].text))
          question == loc[h].question
      IN /\ question = IF remainder = <<>> THEN DefaultQuestion ELSE remainder
         /\ question # <<>> /\ question # <<"">>
         /\ (remainder # <<>> /\ mentionsIn(ev[h].text) > 0) =>
              mentionsIn(question) = mentionsIn(ev[h].text) - 1

C13_Witness ==
  \E h \in Handlers :
    /\ pc[h] # "idle"
    /\ ev[h].text = <<"M", "s", "M", "w">>
    /\ loc[h].question = <<"M", "w">>

\* C14: under any interleaving of the handlers, an entry of the name cache
\* or of the roster cache, once written for an identifier, is never
\* overwritten with a different value.
C14_CachesNeverOverwritten ==
  [][ /\ \A u \in DOMAIN userNames : userNames'[u] = userNames[u]
      /\ \A u \in DOMAIN channelMembers : channelMembers'[u] = channelMembers[u]
    ]_vars

\* C15: the roster cache and the name cache only grow: no step, of a
\* succeeding or of a failing operation, removes a key of either cache.
C15_CachesGrowOnly ==
  [][ /\ DOMAIN userNames \subseteq DOMAIN userNames'
      /\ DOMAIN channelMembers \subseteq DOMAIN channelMembers'
    ]_vars

C15_Witness ==
  /\ DOMAIN userNames = UserIds
  /\ DOMAIN channelMembers = {"U1"}
  /\ \E h \in Handlers : finished(h) /\ ret[h] = Raised
  /\ \E h \in Handlers : name[h].st = "idle" /\ name[h].resp = Empty /\ name[h].lookups # <<>>

\* C16: when adding the reaction fails, the failure reaches the catch block
\* of the handler: that handling issues no roster request, no history
\* request, no profile lookup and no completion request, ever; it calls say
\* with the top-level apology, which is its only post (made unless the
\* platform rejects that post too).
C16_ReactionFailureStopsHandling ==
  \A h \in Handlers :
    "reactions.add" \in failed[h] =>
      /\ loc[h].caught /\ pc[h] \in {"say", "done"}
      /\ reactions[h] = <<>>
      /\ roster[h] = IdleRoster
      /\ hist[h] = IdleHist
      /\ name[h] = IdleName
      /\ completions[h] = <<>>
      /\ \A n \in 1..Len(posts[h]) : posts[h][n].text = HandlerApology
      /\ (finished(h) /\ "say" \notin failed[h]) =>
           /\ Len(posts[h]) = 1
           /\ posts[h][1].channel = ev[h].channel

C16_Witness ==
  \E h \in Handlers :
    /\ finished(h) /\ failed[h] = {"reactions.add"}
    /\ Len(posts[h]) = 1 /\ posts[h][1].text = HandlerApology

\* a getChannelMembers call whose member-list request rejected, or one of
\* whose member lookups rejected or was answered without a user
rosterFailed(r) == r.resp.kind = "error" \/ r.refused # {}

\* C17: getChannelMembers raises, and returns no roster, whenever the
\* member-list request fails or a member's profile lookup fails or returns
\* no user; the step in which a member's lookup fails writes nothing to the
\* roster cache; in a mention handling the failure reaches the catch block,
\* no name lookup and no completion request is issued, and the top-level
\* apology is the handling's only post.
C17_RosterFailureRaises ==
  /\ [](\A i \in Ids :
          rosterFailed(roster[i]) =>
            /\ roster[i].st = "rejected"
            /\ i \in CallIds => ret[i] = Raised
            /\ i \in Handlers =>
                 /\ loc[i].caught /\ pc[i] \in {"say", "done"}
                 /\ name[i] = IdleName
                 /\ completions[i] = <<>>
                 /\ \A n \in 1..Len(posts[i]) : posts[i][n].text = HandlerApology
                 /\ (finished(i) /\ "say" \notin failed[i]) => Len(posts[i]) = 1)
  /\ [][\A i \in Ids :
          roster'[i].refused # roster[i].refused => channelMembers' = channelMembers
       ]_vars

C17_Witness ==
  \E h \in Handlers :
    /\ finished(h)
    /\ roster[h].refused = {"U2"} /\ "users.info" \notin failed[h]
    /\ DOMAIN channelMembers = {"U1"}
    /\ Len(posts[h]) = 1 /\ posts[h][1].text = HandlerApology

authorsOf(messages) == { messages[n].user : n \in 1..Len(messages) }
noRepeat(q) == \A m, n \in 1..Len(q) : q[m] = q[n] => m = n

\* C18: in one mention handling the names are resolved one after the other:
\* a lookup is in flight only inside the name loop and is the last one
\* issued; at most one lookup is issued per distinct author of the filtered
\* messages, also when it fails; and no lookup is issued for an author the
\* process-wide name cache holds at that moment.
C18_BackfillOncePerAuthor ==
  /\ [](\A h \in Handlers :
          /\ name[h].st = "lookup" =>
               /\ pc[h] = "names"
               /\ name[h].lookups # <<>>
               /\ name[h].lookups[Len(name[h].lookups)] = name[h].user
               /\ hist[h].filtered[loc[h].k].user = name[h].user
          /\ noRepeat(name[h].lookups)
          /\ Range(name[h].lookups) \subseteq authorsOf(hist[h].filtered))
  /\ [][\A h \in Handlers :
          name'[h].lookups # name[h].lookups =>
            /\ Len(name'[h].lookups) = Len(name[h].lookups) + 1
            /\ name'[h].st = "lookup"
            /\ name'[h].user \notin DOMAIN userNames'
       ]_vars

C18_Witness ==
  \E h \in Handlers, g \in Handlers :
    /\ name[h].lookups = <<"U1", "U2">> /\ name[h].resp = Empty
    /\ Len(completions[h]) = 1
    /\ completions[h][1].userNames = [u \in UserIds |-> IF u = "U1" THEN "Al" ELSE u]
    /\ name[g].lookups = <<>>
    /\ Len(completions[g]) = 1
    /\ completions[g][1].userNames = [u \in {"U1"} |-> "Al"]

\* a failed lookup is not repeated for a later message of the same author
C18_WitnessFailedOnce ==
  \E h \in Handlers :
    /\ Len(hist[h].filtered) = 2 /\ authorsOf(hist[h].filtered) = {"U1"}
    /\ name[h].lookups = <<"U1">> /\ name[h].resp = Empty
    /\ Len(completions[h]) = 1

\* C19: a mention handling sends at most one completion request, whether
\* it fails or not; once that request is answered (rate-limited,
\* unauthenticated, too short, failed otherwise, or with an answer) no
\* further request is sent, and the text the handler hands to sendMessage
\* is the text getAnswer derived from that one answer.
C19_NoRetry ==
  \A h \in Handlers :
    /\ Len(completions[h]) <= 1
    /\ loc[h].resp # Empty =>
         /\ Len(completions[h]) = 1
         /\ pc[h] \in {"post", "say", "done"}
         /\ loc[h].answer = getAnswer(loc[h].resp)
         /\ thrownInTry(loc[h].resp) # NoError =>
              loc[h].answer \in
                {RateLimitApology, AuthApology, TooShortApology, GenericApology}
         /\ (finished(h) /\ ~loc[h].caught) =>
              posts[h] = << answerPost(ev[h], loc[h].answer) >>

C19_Witness ==
  \E h \in Handlers :
    /\ finished(h)
    /\ loc[h].resp.kind = "error" /\ loc[h].resp.error.status = 429
    /\ Len(completions[h]) = 1
    /\ Len(posts[h]) = 1 /\ posts[h][1].text = RateLimitApology

\* a handling under way
underWay(h) == pc[h] \notin {"idle", "done"}

\* no call of the handling failed
unfailed(h) == failed[h] = {} /\ roster[h].refused = {}

\* C20: a handler never waits for a step of another handler: whatever state
\* the other handler is in, a handling under way has a step of its own to
\* take as soon as its call is answered; and when the calls of the first
\* handler are answered, it runs to its end, and posts its reply if none of
\* its calls failed, also when the second handler stays suspended for ever.
C20_HandlersDoNotBlock ==
  /\ [](\A h \in Handlers : underWay(h) => ENABLED <<Step(h)>>_vars)
  /\ (underWay(1) ~>
        (finished(1) /\ (unfailed(1) => posts[1] = << answerPost(ev[1], Text20) >>)))

C20_Witness ==
  /\ finished(1) /\ unfailed(1)
  /\ posts[1] = << answerPost(ev[1], Text20) >>
  /\ pc[2] = "fetch" /\ roster[2].st = "members" /\ hist[2].st = "history"

\* the prompt of a recorded completion request
promptOf(request) ==
  prompt(request.question, request.messages, request.userNames,
         request.channelMembers)

\* the roster entries that are not bots
humansOf(request) ==
  { u \in DOMAIN request.channelMembers : request.channelMembers[u].isBot = FALSE }

\* the count and the roster listing of a prompt: the count is the number of
\* non-bot entries and the listing has exactly one line `realName (handle)`
\* for each of them, and no other line
rosterListed(request) ==
  LET p == promptOf(request)
      humans == humansOf(request)
  IN /\ p.count = Cardinality(humans)
     /\ Len(p.members) = Cardinality(humans)
     /\ \E f \in [1..Len(p.members) -> humans] :
          /\ \A m, n \in 1..Len(p.members) : f[m] = f[n] => m = n
          /\ \A n \in 1..Len(p.members) :
               p.members[n] =
                 << request.channelMembers[f[n]].real_name, " (",
                    request.channelMembers[f[n]].name, ")" >>

\* the name a transcript line shows for a message
shownName(request, msg) ==
  IF msg.user \in DOMAIN request.userNames /\ request.userNames[msg.user] # ""
    THEN request.userNames[msg.user] ELSE msg.user

\* C21 as stated: the count equals the number of entries with isBot false,
\* the listing has one line per such entry and none for a bot, and the
\* transcript has exactly one line per supplied message, in the order the
\* messages were supplied.
C21_OneLinePerMessage ==
  \A i \in Ids : \A r \in 1..Len(completions[i]) :
    LET request == completions[i][r]
        p == promptOf(request)
    IN /\ rosterListed(request)
       /\ Len(p.transcript) = Len(request.messages)
       /\ \A n \in 1..Len(request.messages) :
            /\ Len(p.transcript[n]) = 6
            /\ p.transcript[n][4] = shownName(request, request.messages[n])

\* the number of lines of a message text
lineCount(text) == IF text = TwoLineText THEN 2 ELSE 1

\* the number of transcript lines the messages before the n-th take
RECURSIVE linesBefore(_, _)
linesBefore(messages, n) ==
  IF n <= 1 THEN 0
  ELSE linesBefore(messages, n - 1) + lineCount(messages[n - 1].text)

\* C21 amended: count and listing as stated; the transcript has exactly one
\* entry per supplied message, in the order supplied: the entry starts on a
\* line of its own with `[time] name: ` and takes as many lines as the
\* message's text has (one line per message when no text has a line break).
C21_OneEntryPerMessage ==
  \A i \in Ids : \A r \in 1..Len(completions[i]) :
    LET request == completions[i][r]
        p == promptOf(request)
        messages == request.messages
    IN /\ rosterListed(request)
       /\ Len(p.transcript) = linesBefore(messages, Len(messages) + 1)
       /\ \A n \in 1..Len(messages) :
            LET at == linesBefore(messages, n) + 1
                line == p.transcript[at]
            IN /\ Len(line) = 6
               /\ line[1] = "[" /\ line[3] = "] " /\ line[5] = ": "
               /\ line[4] = shownName(request, messages[n])
               /\ \A c \in 1..(lineCount(messages[n].text) - 1) :
                    Len(p.transcript[at + c]) = 1
       /\ (\A n \in 1..Len(messages) : lineCount(messages[n].text) = 1) =>
            Len(p.transcript) = Len(messages)

C21_Witness ==
  \E i \in CallIds :
    /\ Len(completions[i]) = 1
    /\ LET request == completions[i][1]
       IN /\ Cardinality(DOMAIN request.channelMembers) = 2
          /\ Cardinality(humansOf(request)) = 1
          /\ Len(request.messages) = 2
          /\ request.messages[1].text = TwoLineText
          /\ Len(promptOf(request).transcript) = 3
          /\ promptOf(request).count = 1

\* C22: for each mention event at most one message is ever posted (a post
\* the platform rejected having posted nothing): never the answer and the
\* apology both, and neither of them twice.
C22_AtMostOnePost ==
  \A h \in Handlers :
    /\ Len(posts[h]) <= 1
    /\ \A n \in 1..Len(posts[h]) :
         /\ posts[h][n].text = HandlerApology <=> loc[h].caught
         /\ posts[h][n].text # HandlerApology => posts[h][n].text = loc[h].answer
         /\ finished(h)

C22_Witness ==
  \E h \in Handlers :
    /\ finished(h)
    /\ failed[h] = {"chat.postMessage"}
    /\ loc[h].answer = Text20
    /\ posts[h] = << apologyPost(ev[h]) >>

\* a platform call issued by the handling is still unanswered
inFlight(h) ==
  \/ roster[h].st = "members" \/ roster[h].pending # {}
  \/ hist[h].st = "history"
  \/ name[h].st = "lookup"

\* C23: once a mention handler has posted its reply, answer or apology, no
\* platform call issued for that mention is still in flight, and no step
\* after the reply writes the roster cache or the name cache for it.
C23_QuiescentAfterReply ==
  /\ [](\A h \in Handlers : posts[h] # <<>> => ~inFlight(h))
  /\ [][\A h \in Handlers :
          (posts[h] # <<>> /\ (roster'[h] # roster[h] \/ name'[h] # name[h])) =>
            (channelMembers' = channelMembers /\ userNames' = userNames)
       ]_vars

\* the handler replied with the apology while a member lookup of its roster
\* resolution was unanswered, and that lookup has written the roster cache
C23_LateWrite ==
  \E h \in Handlers :
    /\ posts[h] = << apologyPost(ev[h]) >>
    /\ roster[h].st = "rejected" /\ roster[h].pending = {}
    /\ roster[h].refused = {"U2"}
    /\ "U1" \in DOMAIN channelMembers

\* C24: whenever the handler invokes getAnswer, the name map it passes has a
\* non-empty entry for the author of every message it passes and no entry
\* for any other identifier; the entry is the display name of the profile
\* when the author's lookup succeeded, the raw identifier when it failed,
\* and a name the cache held when no lookup was made.
C24_NameMapCoversAuthors ==
  \A h \in Handlers : \A r \in 1..Len(completions[h]) :
    LET request == completions[h][r]
        names == request.userNames
    IN /\ request.messages = hist[h].filtered
       /\ DOMAIN names = authorsOf(request.messages)
       /\ \A u \in DOMAIN names :
            /\ names[u] \notin {"", Absent}
            /\ names[u] \in {u} \cup { OrElse(p.real_name, OrElse(p.name, u)) : p \in Profiles }
            /\ u \notin Range(name[h].lookups) =>
                 (u \in DOMAIN userNames /\ names[u] \in {"Al", "Bo"})

C24_Witness ==
  \E h \in Handlers, g \in Handlers :
    /\ Len(completions[h]) = 1 /\ Len(completions[g]) = 1
    /\ name[h].lookups = <<"U1", "U2">>
    /\ completions[h][1].userNames = [u \in UserIds |-> IF u = "U1" THEN "Bo" ELSE u]
    /\ name[g].lookups = <<"U2">>
    /\ completions[g][1].userNames = [u \in UserIds |-> IF u = "U1" THEN "Bo" ELSE "Al"]

====
